---- MODULE Spec2Model ----
(***************************************************************************)
(* Model of allex/envsubst: the naming store (Env), the scanner (lexer),   *)
(* the evaluator (Parser + nodes) and the public Parse operation.          *)
(*                                                                         *)
(* Strings are sequences of one-character strings, positions are byte      *)
(* offsets counted from 0 as in the Go code.  Only one-byte characters are *)
(* modelled, so the width of a rune is 1 (or 0 at end of input).           *)
(* Error messages are sequences of chunks: the fixed parts of a message    *)
(* are single chunks, an interpolated name contributes its characters.     *)
(***************************************************************************)
EXTENDS Integers, Sequences, FiniteSets, TLC

\* ------------------------------------------------------------------------
\* Characters

Letters == {"N", "M", "a", "b", "x", "y", "A", "B"}
Digits == {"1"}
eof == "EOF"

isDigit(r) == r \in Digits

isLetter(r) == r \in Letters

isEndOfLine(r) == r = "\r" \/ r = "\n"

isAlphaNumeric(r) == r = "_" \/ isLetter(r) \/ isDigit(r)

upperOf(c) == CASE c = "a" -> "A" [] c = "b" -> "B" [] c = "x" -> "X" [] c = "y" -> "Y" [] OTHER -> c

lowerOf(c) == CASE c = "A" -> "a" [] c = "B" -> "b" [] c = "N" -> "n" [] c = "M" -> "m" [] OTHER -> c

ToUpper(s) == [i \in 1..Len(s) |-> upperOf(s[i])]

ToLower(s) == [i \in 1..Len(s) |-> lowerOf(s[i])]

\* s[from:to] of Go, 0-based half-open
Slice(s, from, to) == SubSeq(s, from + 1, to)

HasPrefix(s, p) == Len(s) >= Len(p) /\ SubSeq(s, 1, Len(p)) = p

TrimPrefix(s, p) == IF HasPrefix(s, p) THEN SubSeq(s, Len(p) + 1, Len(s)) ELSE s

\* ------------------------------------------------------------------------
\* Naming store (Env)

\* index of the first "=" of entry s (0-based), or -1
RECURSIVE IndexEq(_, _)
IndexEq(s, j) ==
    IF j >= Len(s) THEN -1
    ELSE IF s[j + 1] = "=" THEN j
    ELSE IndexEq(s, j + 1)

\* a variant of the loop of Env.init in which the last declaration of a name
\* takes the index and no entry is blanked
RECURSIVE EnvInit_LastWins(_, _, _)
EnvInit_LastWins(envs, indexes, i) ==
    IF i >= Len(envs) THEN [env |-> envs, indexes |-> indexes]
    ELSE LET s == envs[i + 1]
             j == IndexEq(s, 0)
         IN IF j = -1 THEN EnvInit_LastWins(envs, indexes, i + 1)
            ELSE LET key == Slice(s, 0, j)
                 IN EnvInit_LastWins(envs,
                                     [k \in DOMAIN indexes \cup {key} |->
                                         IF k = key THEN i ELSE indexes[k]],
                                     i + 1)

\* the loop of Env.init over entries i..len-1; indexes is a function key -> index
RECURSIVE EnvInit(_, _, _)
EnvInit(envs, indexes, i) ==
    IF i >= Len(envs) THEN [env |-> envs, indexes |-> indexes]
    ELSE LET s == envs[i + 1]
             j == IndexEq(s, 0)
         IN IF j = -1 THEN EnvInit(envs, indexes, i + 1)
            ELSE LET key == Slice(s, 0, j)
                 IN IF key \notin DOMAIN indexes
                    THEN EnvInit(envs, indexes @@ (key :> i), i + 1)
                    ELSE EnvInit([envs EXCEPT ![i + 1] = <<>>], indexes, i + 1)

NewEnv(list) == EnvInit(list, <<>>, 0)

Has(e, key) == key \in DOMAIN e.indexes

Get(e, key) ==
    IF key \notin DOMAIN e.indexes THEN <<>>
    ELSE LET s == e.env[e.indexes[key] + 1]
             j == IndexEq(s, 0)
         IN IF j = -1 THEN <<>> ELSE Slice(s, j + 1, Len(s))

\* a variant of Env.Set that puts the entry of a new key in front
EnvSet_Prepends(e, key, value) ==
    LET envStr == key \o <<"=">> \o value
    IN IF key \in DOMAIN e.indexes
       THEN [e EXCEPT !.env[e.indexes[key] + 1] = envStr]
       ELSE [env |-> <<envStr>> \o e.env,
             indexes |-> e.indexes @@ (key :> 0)]

\* a variant of Env.Set that appends the entry without looking at the index
EnvSet_Appends(e, key, value) ==
    LET envStr == key \o <<"=">> \o value
    IN [env |-> Append(e.env, envStr),
        indexes |-> IF key \in DOMAIN e.indexes THEN e.indexes
                    ELSE e.indexes @@ (key :> Len(e.env))]

EnvSet(e, key, value) ==
    LET envStr == key \o <<"=">> \o value
    IN IF key \in DOMAIN e.indexes
       THEN [e EXCEPT !.env[e.indexes[key] + 1] = envStr]
       ELSE [env |-> Append(e.env, envStr),
             indexes |-> e.indexes @@ (key :> Len(e.env))]

\* ------------------------------------------------------------------------
\* Scanner (lexer)

\* itemType values, in the order of the const block (eof = -1 takes iota 0)
itemError == 1
itemEOF == 2
itemText == 3
itemPlus == 4
itemDash == 5
itemEquals == 6
itemColonEquals == 7
itemColonDash == 8
itemColonPlus == 9
itemCaretCaret == 10
itemCommaComma == 11
itemVariable == 12
itemLeftDelim == 13
itemRightDelim == 14

\* the name filter: "nil" is the absent filter, any other value is a predicate
Matches(m, v) ==
    CASE m = "all" -> TRUE
      [] m = "none" -> FALSE
      [] m = "onlyN" -> v = <<"N">>
      [] OTHER -> TRUE

\* the lexer right after lex(): items is the history of the items sent
lex(input, noDigit, matcher) ==
    [input |-> input, state |-> "lexText", pos |-> 0, start |-> 0, width |-> 0,
     lastPos |-> 0, items |-> <<>>, subsDepth |-> 0, noDigit |-> noDigit,
     matcher |-> matcher]

\* the rune l.next() returns
nextRune(l) == IF l.pos >= Len(l.input) THEN eof ELSE l.input[l.pos + 1]

\* the lexer after l.next()
next(l) ==
    IF l.pos >= Len(l.input) THEN [l EXCEPT !.width = 0]
    ELSE [l EXCEPT !.width = 1, !.pos = @ + 1]

backup(l) == [l EXCEPT !.pos = @ - l.width]

\* the lexer after l.peek(); the rune it returns is nextRune(l)
peek(l) == backup(next(l))

\* a variant of emit that keeps the pending window
emit_KeepsStart(l, t) ==
    [l EXCEPT !.items = Append(@, [typ |-> t, pos |-> l.start,
                                   val |-> Slice(l.input, l.start, l.pos)]),
              !.lastPos = l.start]

emit(l, t) ==
    [l EXCEPT !.items = Append(@, [typ |-> t, pos |-> l.start,
                                   val |-> Slice(l.input, l.start, l.pos)]),
              !.lastPos = l.start,
              !.start = l.pos]

\* a variant of ignore that keeps the pending input
ignore_KeepsPending(l) == l

ignore(l) == [l EXCEPT !.start = l.pos]

\* a variant of errorf that goes on scanning text after the error item
errorf_KeepsScanning(l, msg) ==
    [l EXCEPT !.items = Append(@, [typ |-> itemError, pos |-> l.start, val |-> msg]),
              !.state = "lexText"]

\* a variant of errorf that ends the scan without sending the error item
errorf_Silent(l, msg) == [l EXCEPT !.state = "nil"]

errorf(l, msg) ==
    [l EXCEPT !.items = Append(@, [typ |-> itemError, pos |-> l.start, val |-> msg]),
              !.state = "nil"]

\* strings.HasPrefix(l.input[l.lastPos:], "${")
lastIsLeftDelim(l) ==
    HasPrefix(Slice(l.input, l.lastPos, Len(l.input)), <<"$", "{">>)

RECURSIVE lexText(_)

\* a variant of lexText that does not emit the text pending at EOF
lexText_DropsTail(l) ==
    LET r == nextRune(l)
        l1 == next(l)
    IN IF r = "$"
       THEN LET l2 == [l1 EXCEPT !.pos = @ - 1]
                l3 == IF l2.pos > l2.start THEN emit(l2, itemText) ELSE l2
                l4 == peek([l3 EXCEPT !.pos = @ + 1])
                r1 == nextRune(l4)
            IN CASE l4.noDigit /\ isDigit(r1) ->
                      lexText(emit(next(l4), itemText))
                 [] ~(l4.noDigit /\ isDigit(r1)) /\ r1 = "$" ->
                      lexText(emit(next(ignore(l4)), itemText))
                 [] ~(l4.noDigit /\ isDigit(r1)) /\ r1 = "{" ->
                      LET l5 == peek(next(l4))
                          r2 == nextRune(l5)
                      IN IF l5.noDigit /\ isDigit(r2)
                         THEN lexText(emit(next(l5), itemText))
                         ELSE [emit([l5 EXCEPT !.subsDepth = @ + 1], itemLeftDelim)
                                 EXCEPT !.state = "lexSubstitutionOperator"]
                 [] ~(l4.noDigit /\ isDigit(r1)) /\ r1 \notin {"$", "{"}
                      /\ isAlphaNumeric(r1) ->
                      [l4 EXCEPT !.state = "lexVariable"]
                 [] OTHER -> lexText(l4)
       ELSE IF r = eof
       THEN [emit(l1, itemEOF) EXCEPT !.state = "nil"]
       ELSE lexText(l1)

lexText(l) ==
    LET r == nextRune(l)
        l1 == next(l)
    IN IF r = "$"
       THEN LET l2 == [l1 EXCEPT !.pos = @ - 1]
                l3 == IF l2.pos > l2.start THEN emit(l2, itemText) ELSE l2
                l4 == peek([l3 EXCEPT !.pos = @ + 1])
                r1 == nextRune(l4)
            IN CASE l4.noDigit /\ isDigit(r1) ->
                      lexText(emit(next(l4), itemText))
                 [] ~(l4.noDigit /\ isDigit(r1)) /\ r1 = "$" ->
                      lexText(emit(next(ignore(l4)), itemText))
                 [] ~(l4.noDigit /\ isDigit(r1)) /\ r1 = "{" ->
                      LET l5 == peek(next(l4))
                          r2 == nextRune(l5)
                      IN IF l5.noDigit /\ isDigit(r2)
                         THEN lexText(emit(next(l5), itemText))
                         ELSE [emit([l5 EXCEPT !.subsDepth = @ + 1], itemLeftDelim)
                                 EXCEPT !.state = "lexSubstitutionOperator"]
                 [] ~(l4.noDigit /\ isDigit(r1)) /\ r1 \notin {"$", "{"}
                      /\ isAlphaNumeric(r1) ->
                      [l4 EXCEPT !.state = "lexVariable"]
                 [] OTHER -> lexText(l4)
       ELSE IF r = eof
       THEN LET l2 == IF l1.pos > l1.start THEN emit(l1, itemText) ELSE l1
            IN [emit(l2, itemEOF) EXCEPT !.state = "nil"]
       ELSE lexText(l1)

\* a variant of the scanning loop that reads one character of the name
scanName_OneChar(l) ==
    IF isAlphaNumeric(nextRune(l)) THEN next(l) ELSE backup(next(l))

\* the scanning loop of lexVariable: next() until a non-alphanumeric, then backup()
RECURSIVE scanName(_)
scanName(l) ==
    IF isAlphaNumeric(nextRune(l)) THEN scanName(next(l)) ELSE backup(next(l))

\* a variant of lexVariable that takes the single underscore for a name
lexVariable_Underscore(l) ==
    LET l1 == scanName(l)
        v0 == Slice(l1.input, l1.start, l1.pos)
        v == IF v0[1] = "$" THEN Tail(v0) ELSE v0
        after == IF l1.subsDepth > 0 THEN "lexSubstitutionOperator" ELSE "lexText"
    IN IF l1.matcher # "nil" /\ ~Matches(l1.matcher, v)
       THEN [emit(l1, itemText) EXCEPT !.state = after]
       ELSE [emit(l1, itemVariable) EXCEPT !.state = after]

\* a variant of lexVariable that does not ask the name filter
lexVariable_NoFilter(l) ==
    LET l1 == scanName(l)
        v0 == Slice(l1.input, l1.start, l1.pos)
        v == IF v0[1] = "$" THEN Tail(v0) ELSE v0
        after == IF l1.subsDepth > 0 THEN "lexSubstitutionOperator" ELSE "lexText"
    IN IF v = <<"_">>
       THEN [emit(l1, itemText) EXCEPT !.state = after]
       ELSE [emit(l1, itemVariable) EXCEPT !.state = after]

lexVariable(l) ==
    LET l1 == scanName(l)
        v0 == Slice(l1.input, l1.start, l1.pos)
        v == IF v0[1] = "$" THEN Tail(v0) ELSE v0
        after == IF l1.subsDepth > 0 THEN "lexSubstitutionOperator" ELSE "lexText"
    IN IF v = <<"_">> \/ (l1.matcher # "nil" /\ ~Matches(l1.matcher, v))
       THEN [emit(l1, itemText) EXCEPT !.state = after]
       ELSE [emit(l1, itemVariable) EXCEPT !.state = after]

\* a variant of the "}" case that leaves the depth as it is
closeBrace_KeepsDepth(l) ==
    LET l1 == emit(l, itemRightDelim)
    IN [l1 EXCEPT !.state = IF l1.subsDepth > 0 THEN "lexSubstitution" ELSE "lexText"]

\* the "}" case shared by lexSubstitutionOperator and lexSubstitution
closeBrace(l) ==
    LET l1 == emit([l EXCEPT !.subsDepth = @ - 1], itemRightDelim)
    IN [l1 EXCEPT !.state = IF l1.subsDepth > 0 THEN "lexSubstitution" ELSE "lexText"]

lexSubstitutionOperator(l) ==
    LET r == nextRune(l)
        l1 == next(l)
        body(x) == [x EXCEPT !.state = "lexSubstitution"]
    IN CASE r = "}" -> closeBrace(l1)
         [] r = eof \/ isEndOfLine(r) -> errorf(l1, <<"closing brace expected">>)
         [] isAlphaNumeric(r) /\ lastIsLeftDelim(l1) -> [l1 EXCEPT !.state = "lexVariable"]
         [] r = "+" -> body(emit(l1, itemPlus))
         [] r = "-" -> body(emit(l1, itemDash))
         [] r = "=" -> body(emit(l1, itemEquals))
         [] r = "^" -> IF nextRune(l1) = "^"
                       THEN body(emit(next(peek(l1)), itemCaretCaret))
                       ELSE body(emit(peek(l1), itemText))
         [] r = "," -> IF nextRune(l1) = ","
                       THEN body(emit(next(peek(l1)), itemCommaComma))
                       ELSE body(emit(peek(l1), itemText))
         [] r = ":" -> LET r2 == nextRune(l1)
                           l2 == next(l1)
                       IN CASE r2 = "-" -> body(emit(l2, itemColonDash))
                            [] r2 = "=" -> body(emit(l2, itemColonEquals))
                            [] r2 = "+" -> body(emit(l2, itemColonPlus))
                            [] OTHER -> body(l2)
         [] OTHER -> body(l1)

lexSubstitution(l) ==
    LET r == nextRune(l)
        l1 == next(l)
        body(x) == [x EXCEPT !.state = "lexSubstitution"]
    IN CASE r = "}" -> closeBrace(l1)
         [] r = eof \/ isEndOfLine(r) -> errorf(l1, <<"closing brace expected">>)
         [] (isAlphaNumeric(r) /\ lastIsLeftDelim(l1)) \/ r = "$" ->
              IF nextRune(l1) = "{"
              THEN LET l2 == peek(next(peek(l1)))
                       r2 == nextRune(l2)
                   IN IF l2.noDigit /\ isDigit(r2)
                      THEN body(emit(next(l2), itemText))
                      ELSE [emit([l2 EXCEPT !.subsDepth = @ + 1], itemLeftDelim)
                              EXCEPT !.state = "lexSubstitutionOperator"]
              ELSE [peek(l1) EXCEPT !.state = "lexVariable"]
         [] OTHER -> body(emit(l1, itemText))

\* one call l.state(l) of the loop of run
lexStep(l) ==
    CASE l.state = "lexText" -> lexText(l)
      [] l.state = "lexVariable" -> lexVariable(l)
      [] l.state = "lexSubstitutionOperator" -> lexSubstitutionOperator(l)
      [] l.state = "lexSubstitution" -> lexSubstitution(l)

RECURSIVE run(_)
run(l) == IF l.state = "nil" THEN l ELSE run(lexStep(l))

\* the items sent on the channel by a complete scan of input
lexItems(input, noDigit, matcher) == run(lex(input, noDigit, matcher)).items

\* ------------------------------------------------------------------------
\* Nodes

NoErr == [code |-> "nil", msg |-> <<>>]

\* Error(err, code) of the package, and errors.New(err) with the empty code
Error(msg, code) == [code |-> code, msg |-> msg]

NilNode == [type |-> "nil", Text |-> <<>>, Ident |-> <<>>]

NewText(text) == [type |-> "NodeText", Text |-> text, Ident |-> <<>>]

NewVariable(ident) == [type |-> "NodeVariable", Text |-> <<>>, Ident |-> ident]

NewSubstitution(expType, varNode, defaultNode) ==
    [type |-> "NodeSubstitution", ExpType |-> expType, Variable |-> varNode,
     Default |-> defaultNode]

TextString(t) == [s |-> t.Text, err |-> NoErr]

\* VariableString with validateNoEmpty not asking isSet
VariableString_NoIsSet(t, env, r) ==
    IF r.KeepUnset /\ ~Has(env, t.Ident)
    THEN [s |-> <<"$">> \o t.Ident, err |-> NoErr]
    ELSE IF r.NoUnset /\ ~Has(env, t.Ident)
    THEN [s |-> <<>>,
          err |-> Error(<<"variable ${">> \o t.Ident \o <<"} not set">>, "NoUnset")]
    ELSE LET value == Get(env, t.Ident)
         IN IF r.NoEmpty /\ value = <<>>
            THEN [s |-> <<>>,
                  err |-> Error(<<"variable ${">> \o t.Ident \o <<"} set but empty">>,
                                "NoEmpty")]
            ELSE [s |-> value, err |-> NoErr]

VariableString(t, env, r) ==
    IF r.KeepUnset /\ ~Has(env, t.Ident)
    THEN [s |-> <<"$">> \o t.Ident, err |-> NoErr]
    ELSE IF r.NoUnset /\ ~Has(env, t.Ident)
    THEN [s |-> <<>>,
          err |-> Error(<<"variable ${">> \o t.Ident \o <<"} not set">>, "NoUnset")]
    ELSE LET value == Get(env, t.Ident)
         IN IF r.NoEmpty /\ value = <<>> /\ Has(env, t.Ident)
            THEN [s |-> <<>>,
                  err |-> Error(<<"variable ${">> \o t.Ident \o <<"} set but empty">>,
                                "NoEmpty")]
            ELSE [s |-> value, err |-> NoErr]

\* String() of a default node, which is a text or a variable node
LeafString(n, env, r) ==
    IF n.type = "NodeText" THEN TextString(n) ELSE VariableString(n, env, r)

\* the operator spelling of a registered pattern transformer
patternOperator(expType) ==
    IF expType = itemCaretCaret THEN <<"^", "^">> ELSE <<",", ",">>

patternTransform(expType, value) ==
    IF expType = itemCaretCaret THEN ToUpper(value) ELSE ToLower(value)

\* a variant of SubstitutionString without the verbatim ${name} of KeepUnset
SubstitutionString_PlainRest(t, env, r) ==
    LET isSet == Has(env, t.Variable.Ident)
        nonEmpty == isSet /\ Get(env, t.Variable.Ident) # <<>>
        hasDefault == t.ExpType >= itemPlus /\ t.Default.type # "nil"
        rest == VariableString(t.Variable, env, r)
    IN IF t.ExpType \in {itemCaretCaret, itemCommaComma}
       THEN IF r.KeepUnset /\ ~isSet
            THEN [s |-> <<"$", "{">> \o t.Variable.Ident \o patternOperator(t.ExpType)
                          \o <<"}">>,
                  err |-> NoErr]
            ELSE LET v == VariableString(t.Variable, env, r)
                 IN IF v.err # NoErr THEN [s |-> <<>>, err |-> v.err]
                    ELSE [s |-> patternTransform(t.ExpType, v.s), err |-> NoErr]
       ELSE IF hasDefault /\ t.ExpType \in {itemColonDash, itemColonEquals}
       THEN IF nonEmpty THEN VariableString(t.Variable, env, r)
            ELSE LeafString(t.Default, env, r)
       ELSE IF hasDefault /\ t.ExpType = itemPlus
       THEN IF isSet THEN LeafString(t.Default, env, r) ELSE [s |-> <<>>, err |-> NoErr]
       ELSE IF hasDefault /\ t.ExpType = itemColonPlus
       THEN IF nonEmpty THEN LeafString(t.Default, env, r) ELSE [s |-> <<>>, err |-> NoErr]
       ELSE IF hasDefault /\ ~isSet
       THEN LeafString(t.Default, env, r)
       ELSE rest

SubstitutionString(t, env, r) ==
    LET isSet == Has(env, t.Variable.Ident)
        nonEmpty == isSet /\ Get(env, t.Variable.Ident) # <<>>
        hasDefault == t.ExpType >= itemPlus /\ t.Default.type # "nil"
        rest == IF r.KeepUnset /\ ~isSet
                THEN [s |-> <<"$", "{">> \o t.Variable.Ident \o <<"}">>, err |-> NoErr]
                ELSE VariableString(t.Variable, env, r)
    IN IF t.ExpType \in {itemCaretCaret, itemCommaComma}
       THEN IF r.KeepUnset /\ ~isSet
            THEN [s |-> <<"$", "{">> \o t.Variable.Ident \o patternOperator(t.ExpType)
                          \o <<"}">>,
                  err |-> NoErr]
            ELSE LET v == VariableString(t.Variable, env, r)
                 IN IF v.err # NoErr THEN [s |-> <<>>, err |-> v.err]
                    ELSE [s |-> patternTransform(t.ExpType, v.s), err |-> NoErr]
       ELSE IF hasDefault /\ t.ExpType \in {itemColonDash, itemColonEquals}
       THEN IF nonEmpty THEN VariableString(t.Variable, env, r)
            ELSE LeafString(t.Default, env, r)
       ELSE IF hasDefault /\ t.ExpType = itemPlus
       THEN IF isSet THEN LeafString(t.Default, env, r) ELSE [s |-> <<>>, err |-> NoErr]
       ELSE IF hasDefault /\ t.ExpType = itemColonPlus
       THEN IF nonEmpty THEN LeafString(t.Default, env, r) ELSE [s |-> <<>>, err |-> NoErr]
       ELSE IF hasDefault /\ ~isSet
       THEN LeafString(t.Default, env, r)
       ELSE rest

NodeString(n, env, r) ==
    CASE n.type = "NodeText" -> TextString(n)
      [] n.type = "NodeVariable" -> VariableString(n, env, r)
      [] n.type = "NodeSubstitution" -> SubstitutionString(n, env, r)

\* ------------------------------------------------------------------------
\* Parser

Quick == 0
AllErrors == 1

zeroItem == [typ |-> 0, pos |-> 0, val |-> <<>>]

\* a variant of New that leaves the restrictions as requested
New_KeepsFlags(r) ==
    [Restrict |-> r,
     Mode |-> Quick,
     lex |-> <<>>,
     token |-> <<zeroItem, zeroItem, zeroItem>>,
     peekCount |-> 0,
     nodes |-> <<>>]

\* New(name, env, r): KeepUnset switches the two failure restrictions off
New(r) ==
    [Restrict |-> IF r.KeepUnset THEN [r EXCEPT !.NoEmpty = FALSE, !.NoUnset = FALSE] ELSE r,
     Mode |-> Quick,
     lex |-> <<>>,
     token |-> <<zeroItem, zeroItem, zeroItem>>,
     peekCount |-> 0,
     nodes |-> <<>>]

\* the result of a call that does not return: a receive on the closed channel
\* yields the zero item, of type 0, on which the loops of parse and action go
\* round forever
Hangs == [code |-> "hang", msg |-> <<>>]

\* p.lex.nextItem(): p.lex holds the items not yet received; a receive on the
\* closed channel yields the zero item
nextItem(p) == IF p.lex = <<>> THEN zeroItem ELSE Head(p.lex)

afterNextItem(p) == IF p.lex = <<>> THEN p ELSE [p EXCEPT !.lex = Tail(@)]

\* the parser after p.next(); the item returned is nextTok of the result
pnext(p) ==
    IF p.peekCount > 0 THEN [p EXCEPT !.peekCount = @ - 1]
    ELSE [afterNextItem(p) EXCEPT !.token[1] = nextItem(p)]

nextTok(p) == p.token[p.peekCount + 1]

\* the parser after p.peek(); the item returned is peekTok of the result
ppeek(p) ==
    IF p.peekCount > 0 THEN p
    ELSE [afterNextItem(p) EXCEPT !.peekCount = 1, !.token[1] = nextItem(p)]

peekTok(p) == p.token[p.peekCount]

\* the inner loop Text: of action, n is the text node being accumulated; on
\* the zero item the model leaves the loop and the loop of action meets it
RECURSIVE actionText(_, _, _)
actionText(p, n, env) ==
    LET p1 == ppeek(p)
        t == peekTok(p1)
    IN CASE t.typ \in {itemRightDelim, itemError, itemEOF} -> [p |-> p1, n |-> n]
         [] t.typ = 0 -> [p |-> p1, n |-> n]
         [] t.typ = itemVariable ->
              LET p2 == pnext(p1)
                  nextToken == nextTok(p2)
                  varName == TrimPrefix(nextToken.val, <<"$">>)
              IN IF Has(env, varName)
                 THEN actionText(p2, [n EXCEPT !.Text = @ \o Get(env, varName)], env)
                 ELSE actionText(p2, [n EXCEPT !.Text = @ \o nextToken.val], env)
         [] t.typ = itemLeftDelim -> [p |-> p1, n |-> n]
         [] OTHER ->
              LET p2 == pnext(p1)
              IN actionText(p2, [n EXCEPT !.Text = @ \o nextTok(p2).val], env)

RECURSIVE action(_, _)
RECURSIVE actionLoop(_, _, _, _, _)

\* case itemText of action, after the inner loop: a is its result
actionLoopText(a, expType, varNode, env) ==
    actionLoop(a.p, expType, a.n, varNode, env)

\* case itemLeftDelim of action with a variable next, after nestedSubst.String():
\* res is its result
actionNestedResult(p, res, expType, varNode, env) ==
    IF res.err # NoErr
    THEN [p |-> p, node |-> NilNode, err |-> res.err]
    ELSE actionLoop(p, expType, NewText(res.s), varNode, env)

\* case itemLeftDelim of action with a variable next, after the nested p.action():
\* nested is its result
actionNested(nested, expType, varNode, env) ==
    IF nested.err # NoErr
    THEN [p |-> nested.p, node |-> NilNode, err |-> nested.err]
    ELSE actionNestedResult(nested.p,
                            SubstitutionString(nested.node, env, nested.p.Restrict),
                            expType, varNode, env)

\* case itemLeftDelim of action, p2 is the parser after p.peek()
actionLeftDelim(p2, expType, varNode, env) ==
    IF peekTok(p2).typ = itemVariable
    THEN actionNested(action(p2, env), expType, varNode, env)
    ELSE actionLoop(p2, expType, NewText(<<"$", "{">>), varNode, env)

\* the loop Loop: of action
actionLoop(p, expType, defaultNode, varNode, env) ==
    LET p1 == pnext(p)
        t == nextTok(p1)
    IN CASE t.typ = itemRightDelim ->
              [p |-> p1, node |-> NewSubstitution(expType, varNode, defaultNode), err |-> NoErr]
         [] t.typ = itemError ->
              [p |-> p1, node |-> NilNode, err |-> Error(t.val, "")]
         [] t.typ = 0 -> [p |-> p1, node |-> NilNode, err |-> Hangs]
         [] t.typ = itemVariable ->
              actionLoop(p1, expType, NewVariable(TrimPrefix(t.val, <<"$">>)), varNode, env)
         [] t.typ = itemText ->
              actionLoopText(actionText(p1, NewText(t.val), env), expType, varNode, env)
         [] t.typ = itemLeftDelim ->
              actionLeftDelim(ppeek(p1), expType, varNode, env)
         [] OTHER -> actionLoop(p1, t.typ, defaultNode, varNode, env)

\* the parser p1 after the p.next() that reads the leading variable
actionStart(p1, env) ==
    actionLoop(p1, 0, NilNode, NewVariable(nextTok(p1).val), env)

\* Parse substitution. first item is a variable.
action(p, env) == actionStart(pnext(p), env)

RECURSIVE parse(_, _)

\* case itemLeftDelim of parse with a variable next, a is the result of p.action()
parseAction(a, env) ==
    IF a.err # NoErr THEN [p |-> a.p, err |-> a.err]
    ELSE parse([a.p EXCEPT !.nodes = Append(@, a.node)], env)

\* a variant of the case that drops the "${" no variable follows
parseLeftDelim_DropsDelim(p2, textNode, env) ==
    IF peekTok(p2).typ = itemVariable
    THEN parseAction(action(p2, env), env)
    ELSE parse(p2, env)

\* case itemLeftDelim of parse, p2 is the parser after p.peek()
parseLeftDelim(p2, textNode, env) ==
    IF peekTok(p2).typ = itemVariable
    THEN parseAction(action(p2, env), env)
    ELSE parse([p2 EXCEPT !.nodes = Append(@, textNode)], env)

\* one turn of the loop of parse, t is the item p.next() returned and p1 the
\* parser after it
parseItem(p1, t, env) ==
    CASE t.typ = itemEOF -> [p |-> p1, err |-> NoErr]
      [] t.typ = itemError -> [p |-> p1, err |-> Error(t.val, "")]
      [] t.typ = 0 -> [p |-> p1, err |-> Hangs]
      [] t.typ = itemVariable ->
           parse([p1 EXCEPT !.nodes = Append(@, NewVariable(TrimPrefix(t.val, <<"$">>)))], env)
      [] t.typ = itemLeftDelim -> parseLeftDelim(ppeek(p1), NewText(t.val), env)
      [] OTHER -> parse([p1 EXCEPT !.nodes = Append(@, NewText(t.val))], env)

parseNext(p1, env) == parseItem(p1, nextTok(p1), env)

\* the loop of Parser.parse; the result carries the parser and the error
parse(p, env) == parseNext(pnext(p), env)

RECURSIVE render(_, _, _, _, _, _)

\* a variant of renderNode that collects the error in Quick mode too
renderNode_KeepsGoing(nodes, i, env, p, out, errs, res) ==
    render(nodes, i + 1, env, p, out \o res.s,
           IF res.err # NoErr THEN Append(errs, res.err) ELSE errs)

\* one turn of the rendering loop, res is the result of node.String()
renderNode(nodes, i, env, p, out, errs, res) ==
    IF res.err # NoErr /\ p.Mode = Quick
    THEN [out |-> out, errs |-> errs, stop |-> res.err]
    ELSE render(nodes, i + 1, env, p, out \o res.s,
                IF res.err # NoErr THEN Append(errs, res.err) ELSE errs)

\* the rendering loop of Parse over nodes i..: out is the text so far, errs the
\* errors collected so far, stop the error Quick returns at once
render(nodes, i, env, p, out, errs) ==
    IF i > Len(nodes) THEN [out |-> out, errs |-> errs, stop |-> NoErr]
    ELSE renderNode(nodes, i, env, p, out, errs, NodeString(nodes[i], env, p.Restrict))

\* the messages of errs joined by "\n"
RECURSIVE joinErrs(_, _)
joinErrs(errs, i) ==
    IF i > Len(errs) THEN <<>>
    ELSE (IF i > 1 THEN <<"\n">> ELSE <<>>) \o errs[i].msg \o joinErrs(errs, i + 1)

\* the return of Parse after the rendering loop, rr is the loop's result
ParseReturn(p, rr) ==
    IF rr.stop # NoErr THEN [p |-> p, out |-> <<>>, err |-> rr.stop]
    ELSE IF Len(rr.errs) > 0
    THEN [p |-> p, out |-> <<>>, err |-> Error(joinErrs(rr.errs, 1), "")]
    ELSE [p |-> p, out |-> rr.out, err |-> NoErr]

\* a variant of Parse that in AllErrors mode forgets the error of p.parse()
ParseNodes_ForgetsParseErr(pr, env) ==
    IF pr.err = Hangs THEN [p |-> pr.p, out |-> <<>>, err |-> Hangs]
    ELSE IF pr.err # NoErr /\ pr.p.Mode = Quick
    THEN [p |-> pr.p, out |-> <<>>, err |-> pr.err]
    ELSE ParseReturn(pr.p, render(pr.p.nodes, 1, env, pr.p, <<>>, <<>>))

\* Parse after p.parse(), pr is its result
ParseNodes(pr, env) ==
    IF pr.err = Hangs THEN [p |-> pr.p, out |-> <<>>, err |-> Hangs]
    ELSE IF pr.err # NoErr /\ pr.p.Mode = Quick
    THEN [p |-> pr.p, out |-> <<>>, err |-> pr.err]
    ELSE ParseReturn(pr.p, render(pr.p.nodes, 1, env, pr.p, <<>>,
                                  IF pr.err # NoErr THEN <<pr.err>> ELSE <<>>))

\* Parser.Parse over the items its lexer sends: the parser afterwards, the
\* text and the error returned
\* a variant of Parse that keeps the nodes of the call before
ParseItems_KeepsNodes(p, env, sent) ==
    ParseNodes(parse([p EXCEPT !.lex = sent, !.peekCount = 0], env), env)

ParseItems(p, env, sent) ==
    ParseNodes(parse([p EXCEPT !.lex = sent, !.nodes = <<>>, !.peekCount = 0], env), env)

\* Parser.Parse(text)
Parse(p, env, text) ==
    ParseItems(p, env, lexItems(text, p.Restrict.NoDigit, p.Restrict.VarMatcher))

\* ------------------------------------------------------------------------
\* The program as a state machine: a caller builds a store with NewEnv and a
\* Parser with New, may change the store with Set and the Parser's Mode
\* field, and calls Parse once on the Parser (as the package-level functions
\* StringRestrictedKeepUnset etc. do).

MaxPlainLen == 2

nameN == <<"N">>
nameM == <<"M">>
Names == {nameN, nameM}

\* the initial "NAME=VALUE" lists: N absent, empty, "a" or "Ab", M absent,
\* empty or "b", and a list that declares N and the two-letter name NM
nameNM == <<"N", "M">>
EntryNM == <<"N", "M", "=", "y">>
EntriesN == {<<"N", "=">>, <<"N", "=", "a">>, <<"N", "=", "A", "b">>}
EntriesM == {<<"M", "=">>, <<"M", "=", "b">>}
InitLists ==
    {<<>>} \cup {<<e>> : e \in EntriesN \cup EntriesM}
           \cup {<<e1, e2>> : e1 \in EntriesN, e2 \in EntriesM}
           \cup {<<<<"N", "=", "a">>, EntryNM>>}

\* Set(key, value) calls of the caller
SetKeys == {nameM}
SetValues == {<<>>, <<"b">>}

Matchers == {"nil", "onlyN", "all"}
RestrictionsSet ==
    [NoUnset : BOOLEAN, NoEmpty : BOOLEAN, NoDigit : BOOLEAN, KeepUnset : BOOLEAN,
     VarMatcher : Matchers]

\* input texts
Ref(n) == <<"$">> \o n
Braced(n) == <<"$", "{">> \o n \o <<"}">>
Exp(n, op, d) == <<"$", "{">> \o n \o op \o d \o <<"}">>

opDash == <<"-">>
opEquals == <<"=">>
opColonDash == <<":", "-">>
opColonEquals == <<":", "=">>
opPlus == <<"+">>
opColonPlus == <<":", "+">>
opCaretCaret == <<"^", "^">>
opCommaComma == <<",", ",">>
DefaultOps == {opDash, opEquals, opColonDash, opColonEquals}
AlternateOps == {opPlus, opColonPlus}
Ops == DefaultOps \cup AlternateOps \cup {opCaretCaret, opCommaComma, <<>>}

\* default/alternate texts, by form: literal text pre alone ("none"), or pre,
\* a reference to M written $M ("plain") or ${M} ("braced"), and post
DefaultForms ==
    {[pre |-> t, ref |-> "none", post |-> <<>>] : t \in {<<>>, <<"x">>, <<"x", "y">>, <<"-", "x">>}}
    \cup {[pre |-> t, ref |-> "plain", post |-> <<>>] : t \in {<<>>, <<"x">>}}
    \cup {[pre |-> <<>>, ref |-> "braced", post |-> <<>>],
          [pre |-> <<"x">>, ref |-> "braced", post |-> <<"y">>]}

DText(d) ==
    d.pre \o (CASE d.ref = "none" -> <<>>
                [] d.ref = "plain" -> Ref(nameM)
                [] d.ref = "braced" -> Braced(nameM)) \o d.post

Defaults == {DText(d) : d \in DefaultForms}

PlainRefs == {Ref(n) : n \in Names} \cup {Braced(n) : n \in Names}
SpecialNames == {<<"_">>, <<"1">>}
SpecialRefs == {Ref(n) : n \in SpecialNames} \cup {Braced(n) : n \in SpecialNames}
Expansions == {Exp(nameN, op, d) : op \in Ops, d \in Defaults}

\* texts without "$"
PlainChars == {"{", "}", ":", "-", "a", "\n"}
RECURSIVE SeqsUpTo(_, _)
SeqsUpTo(S, n) ==
    IF n = 0 THEN {<<>>}
    ELSE LET shorter == SeqsUpTo(S, n - 1)
         IN shorter \cup {Append(t, c) : t \in shorter, c \in S}
PlainTexts == SeqsUpTo(PlainChars, MaxPlainLen)

BaseInputs == PlainRefs \cup SpecialRefs \cup Expansions \cup PlainTexts
\* the escape $$ before a reference, an expansion or a short text
Escaped ==
    {<<"$", "$">> \o t :
        t \in PlainRefs \cup SpecialRefs \cup Expansions \cup SeqsUpTo(PlainChars, 1)}

\* expansions of N left open, or holding a line terminator before the brace
OpenExp(n, op, d) == <<"$", "{">> \o n \o op \o d
OpenOps == {<<>>, opDash, opColonDash, <<":">>}
OpenTails == {<<>>, <<"x">>, Braced(nameM), <<"\n", "}">>}
Unterminated ==
    {<<"$", "{">>} \cup {OpenExp(nameN, op, d) : op \in OpenOps, d \in OpenTails}

\* a reference to M followed by an expansion left open
AfterNode ==
    {r \o u : r \in {Ref(nameM), Braced(nameM)},
              u \in {<<"$", "{">>, OpenExp(nameN, <<>>, <<>>), OpenExp(nameN, opDash, <<"x">>)}}

\* two references or expansions, side by side or with a blank between them
NodeTexts ==
    {Ref(nameN), Braced(nameN), Ref(nameM), Braced(nameM),
     Exp(nameN, opDash, Braced(nameM)), Exp(nameN, opColonPlus, <<"x">>)}
TwoNodes == {a \o sep \o b : a \in NodeTexts, b \in NodeTexts, sep \in {<<>>, <<" ">>}}

\* a reference with literal text before it, after it, or both
Wrapped ==
    {pre \o r \o post : pre \in {<<>>, <<"a", " ">>}, post \in {<<>>, <<" ", "x">>},
                        r \in PlainRefs}

\* digit-led references in the default of an expansion of N
digit1 == <<"1">>
DigitInside ==
    {Exp(nameN, op, pre \o r) : op \in {opDash, opColonDash}, pre \in {<<>>, <<"x">>},
                                r \in {Ref(digit1), Braced(digit1)}}

\* an assigning default followed by a plain reference to the same name
AssignThenRef ==
    {Exp(nameN, op, <<"x">>) \o <<" ">> \o Ref(nameN) : op \in {opEquals, opColonEquals}}
\* an operator character after a reference inside the default
OpAfterRef ==
    {Exp(nameN, op, Ref(nameM) \o <<c, "x">>) : op \in {opColonDash, opPlus}, c \in {"-", "="}}
\* expansions of M, which the filter "onlyN" rejects, over N in the body
LeadOps == {opDash, opColonEquals, opColonPlus, opCaretCaret}
LeadBodies == {<<>>, <<"x">>, Ref(nameN), Braced(nameN)}
LeadM == {Exp(nameM, op, d) : op \in LeadOps, d \in LeadBodies}
\* brace-less references to names of two characters, references to N ended
\* by a character that is no name character, and references side by side
Runs == {nameNM, <<"N", "1">>, <<"N", "_">>}
LongRefs == {Ref(n) : n \in Runs}
EndedRefs ==
    {Ref(nameN) \o rest : rest \in {<<"-", "a">>, <<"}">>}} \cup {Braced(nameN) \o <<"a">>}
AdjacentRefs == {Ref(nameNM) \o Ref(nameN), Ref(nameN) \o Ref(nameM)}
\* a lone ":" after the name, closed at once or after one character
ColonForms == {Exp(nameN, <<":">>, d) : d \in {<<>>, <<"x">>}}
Inputs ==
    BaseInputs \cup Escaped \cup Unterminated \cup AfterNode \cup TwoNodes \cup Wrapped
        \cup DigitInside \cup AssignThenRef \cup ColonForms \cup OpAfterRef \cup LeadM
        \cup LongRefs \cup EndedRefs \cup AdjacentRefs

\* env, parser: the store and the parser of the caller; phase: where the
\* caller is; text, out, err: the argument and the results of the last Parse;
\* list: the entries as handed to NewEnv (followed by StoreSpec only);
\* producer, consumer, made, channel, received: the scanning goroutine, the
\* parsing caller and the channel between them (followed by ScanSpec only)
VARIABLES env, parser, phase, text, out, err, list,
          producer, consumer, made, channel, received

storeVars == <<list>>
scanVars == <<producer, consumer, made, channel, received>>
vars == <<env, parser, phase, text, out, err, list,
          producer, consumer, made, channel, received>>

\* no scan is in progress
ScanIdle ==
    /\ producer = "idle"
    /\ consumer = "idle"
    /\ made = 0
    /\ channel = <<>>
    /\ received = <<>>

Init ==
    /\ \E l \in InitLists : env = NewEnv(l)
    /\ \E r \in RestrictionsSet : parser = New(r)
    /\ phase = "ready"
    /\ text = <<>>
    /\ out = <<>>
    /\ err = NoErr
    /\ list = <<>>
    /\ ScanIdle

\* env.Set(key, value)
Set(key, value) ==
    /\ phase = "ready"
    /\ env' = EnvSet(env, key, value)
    /\ UNCHANGED <<parser, phase, text, out, err, storeVars, scanVars>>

\* parser.Mode = m
SetMode(m) ==
    /\ phase = "ready"
    /\ parser.Mode # m
    /\ parser' = [parser EXCEPT !.Mode = m]
    /\ UNCHANGED <<env, phase, text, out, err, storeVars, scanVars>>

\* a variant of the return of Parse that stores the default of ${N=x}
Returns_Assigns(res, input) ==
    /\ parser' = res.p
    /\ out' = res.out
    /\ err' = res.err
    /\ text' = input
    /\ phase' = "returned"
    /\ env' = IF input \in AssignThenRef /\ ~Has(env, nameN)
              THEN EnvSet(env, nameN, <<"x">>) ELSE env
    /\ UNCHANGED <<storeVars, scanVars>>

\* parser.Parse(input)
Returns(res, input) ==
    /\ parser' = res.p
    /\ out' = res.out
    /\ err' = res.err
    /\ text' = input
    /\ phase' = IF res.err = Hangs THEN "hung" ELSE "returned"
    /\ UNCHANGED <<env, storeVars, scanVars>>

DoParse(input) ==
    /\ phase = "ready"
    /\ Returns(Parse(parser, env, input), input)

Next ==
    \/ \E key \in SetKeys, value \in SetValues : Set(key, value)
    \/ \E m \in {Quick, AllErrors} : SetMode(m)
    \/ \E input \in Inputs : DoParse(input)

Spec == Init /\ [][Next]_vars

\* ------------------------------------------------------------------------
\* The naming store on its own: a caller hands a list of entries to NewEnv
\* and then calls Set any number of times.

MaxListLen == 3

nameK == <<"K">>
\* entries: N three times with different values, M, an entry without "=" and
\* a value that contains "="
StoreEntries ==
    {<<"N", "=", "a">>, <<"N", "=", "b">>, <<"N", "=">>, <<"M", "=", "b">>,
     <<"N">>, <<"N", "=", "a", "=", "b">>}
StoreLists == SeqsUpTo(StoreEntries, MaxListLen)
StoreKeys == {nameN, nameM}
StoreValues == {<<>>, <<"B">>}
\* the names looked up; K is declared by no entry and never set
StoreNames == {nameN, nameM, nameK}

\* e := &Env{env: list}
StoreInit ==
    /\ \E l \in StoreLists : list = l /\ env = [env |-> l, indexes |-> <<>>]
    /\ parser = New([NoUnset |-> FALSE, NoEmpty |-> FALSE, NoDigit |-> FALSE,
                     KeepUnset |-> FALSE, VarMatcher |-> "nil"])
    /\ phase = "declared"
    /\ text = <<>>
    /\ out = <<>>
    /\ err = NoErr
    /\ ScanIdle

\* e.init() and the return of NewEnv
Build ==
    /\ phase = "declared"
    /\ env' = NewEnv(env.env)
    /\ phase' = "built"
    /\ UNCHANGED <<parser, text, out, err, storeVars, scanVars>>

\* env.Set(key, value) on the store NewEnv returned
StoreSet(key, value) ==
    /\ phase \in {"built", "set"}
    /\ env' = EnvSet(env, key, value)
    /\ phase' = "set"
    /\ UNCHANGED <<parser, text, out, err, storeVars, scanVars>>

StoreNext ==
    \/ Build
    \/ \E key \in StoreKeys, value \in StoreValues : StoreSet(key, value)

StoreSpec == StoreInit /\ [][StoreNext]_vars

\* ------------------------------------------------------------------------
\* Lazy injection: the caller builds the store and the parser, and then calls
\* Set, sets the Mode and calls Parse, in any order, on the same store and the
\* same parser; phase "used" is a parser that has parsed before the last Set
\* or change of Mode, "reparsed" a Parse of a parser that has parsed before.

LazyLists ==
    {<<>>, <<<<"M", "=", "b">>>>, <<<<"N", "=", "a">>, <<"M", "=", "b">>>>,
     <<<<"N", "=">>>>}
LazyRestrictions == {r \in RestrictionsSet : ~r.NoDigit /\ r.VarMatcher = "nil"}
LazyValues == {<<>>, <<"B">>}
LazyInputs ==
    {Ref(nameN), Braced(nameN), Ref(nameM), Braced(nameM),
     <<"$", "{">>, Ref(nameM) \o <<"$", "{">>, Exp(nameN, opDash, Braced(nameM)),
     Ref(nameM) \o <<" ">> \o Braced(nameM)}

LazyInit ==
    /\ \E l \in LazyLists : list = l /\ env = NewEnv(l)
    /\ \E r \in LazyRestrictions : parser = New(r)
    /\ phase = "ready"
    /\ text = <<>>
    /\ out = <<>>
    /\ err = NoErr
    /\ ScanIdle

\* env.Set(key, value), before the first Parse or after a Parse has returned
LazySet(key, value) ==
    /\ phase \in {"ready", "returned", "reparsed"}
    /\ env' = EnvSet(env, key, value)
    /\ phase' = IF phase = "ready" THEN "ready" ELSE "used"
    /\ UNCHANGED <<parser, text, out, err, storeVars, scanVars>>

LazyReturns(res, input) ==
    /\ parser' = res.p
    /\ out' = res.out
    /\ err' = res.err
    /\ text' = input
    /\ phase' = IF phase = "ready" THEN "returned" ELSE "reparsed"
    /\ UNCHANGED <<env, storeVars, scanVars>>

\* parser.Mode = m, before the first Parse or after a Parse has returned
LazySetMode(m) ==
    /\ phase \in {"ready", "returned", "reparsed"}
    /\ parser.Mode # m
    /\ parser' = [parser EXCEPT !.Mode = m]
    /\ phase' = IF phase = "ready" THEN "ready" ELSE "used"
    /\ UNCHANGED <<env, text, out, err, storeVars, scanVars>>

\* parser.Parse(input), the first of the parser or a later one
LazyParse(input) ==
    /\ phase \in {"ready", "used", "returned", "reparsed"}
    /\ LazyReturns(Parse(parser, env, input), input)

LazyNext ==
    \/ \E key \in Names, value \in LazyValues : LazySet(key, value)
    \/ \E m \in {Quick, AllErrors} : LazySetMode(m)
    \/ \E input \in LazyInputs : LazyParse(input)

LazySpec == LazyInit /\ [][LazyNext]_vars

\* ------------------------------------------------------------------------
\* One Parse call step by step: lex() makes the channel and starts the
\* scanning goroutine (the producer), the caller (the consumer) runs parse and
\* the rendering loop. producer is "scanning" between sends, "sending" while
\* it waits in `l.items <- item`, "closed" after close(l.items); made counts
\* the sends it has reached. consumer is "running", "receiving" while it
\* waits in `<-l.items`, "returned", or "hung" on the closed channel; received
\* holds the items it has got and channel the items sent and not yet got.

\* a variant with room for two items in the channel
chanCap_Buffered == 1 + 1

\* make(chan item): the capacity of the channel
chanCap == 0

ScanLists ==
    {<<>>, <<<<"N", "=", "a">>>>, <<<<"M", "=", "b">>>>,
     <<<<"N", "=", "a">>, <<"M", "=", "b">>>>}
ScanRestrictions ==
    {r \in RestrictionsSet : ~r.NoEmpty /\ ~r.NoDigit /\ r.VarMatcher = "nil"}
ScanInputs ==
    {<<>>, <<"a">>, Ref(nameN), Braced(nameM), <<"a", " ">> \o Ref(nameN) \o <<" ", "x">>,
     <<"$", "$">> \o nameN, <<"$", "{">>, OpenExp(nameN, <<>>, <<>>),
     OpenExp(nameN, opDash, <<"x">>), Ref(nameM) \o <<"$", "{">>,
     Exp(nameN, opDash, <<"x">>), Exp(nameN, opColonPlus, <<"x">>),
     Exp(nameN, opDash, Ref(nameM)), Exp(nameN, opDash, Braced(nameM)),
     Exp(nameN, opDash, Braced(nameM)) \o Ref(nameN),
     Exp(nameN, opDash, <<"x">> \o Braced(nameM) \o <<"y">>),
     Exp(nameN, opDash, <<"$", "{", "}">>),
     Exp(nameN, opDash, OpenExp(nameM, <<>>, <<>>)),
     Braced(nameN) \o <<" ">> \o Braced(nameM)}

\* the items the producer sends over a whole scan of text, in order
Produced == lexItems(text, parser.Restrict.NoDigit, parser.Restrict.VarMatcher)

\* Parse up to `go l.run()`, the caller having set the mode before
ScanInit ==
    /\ \E l \in ScanLists : env = NewEnv(l)
    /\ \E r \in ScanRestrictions, m \in {Quick, AllErrors} :
           parser = [New(r) EXCEPT !.Mode = m]
    /\ \E input \in ScanInputs : text = input
    /\ phase = "parsing"
    /\ out = <<>>
    /\ err = NoErr
    /\ list = <<>>
    /\ producer = "scanning"
    /\ consumer = "running"
    /\ made = 0
    /\ channel = <<>>
    /\ received = <<>>

\* the producer runs on to its next send
Emit ==
    /\ producer = "scanning"
    /\ made < Len(Produced)
    /\ made' = made + 1
    /\ producer' = "sending"
    /\ UNCHANGED <<env, parser, phase, text, out, err, list, consumer, channel, received>>

\* the send `l.items <- it` completes: into the hands of the waiting consumer,
\* or into the channel while it has room
SendItem(it) ==
    /\ producer = "sending"
    /\ IF consumer = "receiving" /\ channel = <<>> THEN TRUE ELSE Len(channel) < chanCap
    /\ producer' = "scanning"
    /\ IF consumer = "receiving" /\ channel = <<>>
       THEN received' = Append(received, it) /\ consumer' = "running"
                /\ UNCHANGED channel
       ELSE channel' = Append(channel, it) /\ UNCHANGED <<received, consumer>>
    /\ UNCHANGED <<env, parser, phase, text, out, err, list, made>>

Send == made > 0 /\ SendItem(Produced[made])

\* the state function returned nil: run leaves its loop and closes the
\* channel; a consumer waiting on it gets the zero item
Close ==
    /\ producer = "scanning"
    /\ made = Len(Produced)
    /\ producer' = "closed"
    /\ consumer' = IF consumer = "receiving" /\ channel = <<>> THEN "hung" ELSE consumer
    /\ UNCHANGED <<env, parser, phase, text, out, err, list, made, channel, received>>

\* the consumer, having used up the items it has got, calls nextItem: res is
\* its Parse over the items received so far
RequestWith(res) ==
    /\ consumer = "running"
    /\ res.err = Hangs
    /\ IF channel # <<>>
       THEN received' = Append(received, Head(channel)) /\ channel' = Tail(channel)
                /\ UNCHANGED consumer
       ELSE consumer' = (IF producer = "closed" THEN "hung" ELSE "receiving")
                /\ UNCHANGED <<channel, received>>
    /\ UNCHANGED <<env, parser, phase, text, out, err, list, producer, made>>

Request == RequestWith(ParseItems(parser, env, received))

\* Parse returns without a further receive
ReturnWith(res) ==
    /\ consumer = "running"
    /\ res.err # Hangs
    /\ consumer' = "returned"
    /\ phase' = "returned"
    /\ parser' = res.p
    /\ out' = res.out
    /\ err' = res.err
    /\ UNCHANGED <<env, text, list, producer, made, channel, received>>

Return == ReturnWith(ParseItems(parser, env, received))

ScanNext == Emit \/ Send \/ Close \/ Request \/ Return

ScanSpec == ScanInit /\ [][ScanNext]_vars

\* ------------------------------------------------------------------------
\* Properties

returned == phase = "returned"

R == parser.Restrict

\* the name filter lets every modelled name through
AcceptsAll == R.VarMatcher \in {"nil", "all"}

Accepts(n) == R.VarMatcher = "nil" \/ Matches(R.VarMatcher, n)

absent(n) == ~Has(env, n)
presentEmpty(n) == Has(env, n) /\ Get(env, n) = <<>>
presentNonEmpty(n) == Has(env, n) /\ Get(env, n) # <<>>

UnsetMsg(n) == <<"variable ${">> \o n \o <<"} not set">>
EmptyMsg(n) == <<"variable ${">> \o n \o <<"} set but empty">>

Succeeds(s) == err = NoErr /\ out = s
FailsWith(msg) == err # NoErr /\ err.msg = msg /\ out = <<>>

\* the plain-variable rule for name n, preserveUnresolved off
PlainRule(n) ==
    IF absent(n) /\ R.NoUnset THEN FailsWith(UnsetMsg(n))
    ELSE IF presentEmpty(n) /\ R.NoEmpty THEN FailsWith(EmptyMsg(n))
    ELSE Succeeds(Get(env, n))

\* C1: a plain reference $N or ${N}, preserveUnresolved off, fails with
\* "variable ${N} not set" when N is absent and failOnUnset is on, fails with
\* "variable ${N} set but empty" when N is present and empty and failOnEmpty is
\* on, and in every other case renders the store value (empty when absent);
\* the message is one of the two, never both
C1_PlainReference ==
    \A n \in Names :
        (returned /\ text \in {Ref(n), Braced(n)} /\ ~R.KeepUnset /\ Accepts(n))
            => PlainRule(n)

C1_Witness ==
    /\ returned /\ text = Braced(nameN) /\ Accepts(nameN)
    /\ presentEmpty(nameN) /\ R.NoEmpty /\ R.NoUnset
    /\ FailsWith(EmptyMsg(nameN))

\* the reference of default form d as written in the input
RefText(d) == IF d.ref = "plain" THEN Ref(nameM) ELSE Braced(nameM)

\* the rendering of default/alternate form d: its literal text with the
\* reference to M rendered by the plain-variable rule (verbatim when
\* preserveUnresolved keeps an absent M)
DRule(d) ==
    IF d.ref = "none" THEN Succeeds(d.pre)
    ELSE IF absent(nameM) /\ R.KeepUnset THEN Succeeds(d.pre \o RefText(d) \o d.post)
    ELSE IF absent(nameM) /\ R.NoUnset THEN FailsWith(UnsetMsg(nameM))
    ELSE IF presentEmpty(nameM) /\ R.NoEmpty THEN FailsWith(EmptyMsg(nameM))
    ELSE Succeeds(d.pre \o Get(env, nameM) \o d.post)

NonEmptyForms == {d \in DefaultForms : DText(d) # <<>>}
RefForms == {d \in DefaultForms : d.ref # "none"}

\* the input is ${N op D} and every name passes the name filter
IsExp(op, d) == returned /\ AcceptsAll /\ text = Exp(nameN, op, DText(d))

\* no Unset/Empty failure about M is returned
NoFailureAbout(n) == err = NoErr \/ err.msg \notin {UnsetMsg(n), EmptyMsg(n)}

\* C2: for every non-empty default D, ${N-D} and ${N=D} render D when N is
\* absent, and otherwise render N by the plain-variable rule
C2_DashDefault ==
    \A op \in {opDash, opEquals}, d \in NonEmptyForms :
        IsExp(op, d) => IF absent(nameN) THEN DRule(d) ELSE PlainRule(nameN)

\* C3: for every non-empty default D, ${N:-D} and ${N:=D} render D when N is
\* absent or empty, and N's value when N is present and non-empty
C3_ColonDashDefault ==
    \A op \in {opColonDash, opColonEquals}, d \in NonEmptyForms :
        IsExp(op, d) =>
            IF presentNonEmpty(nameN) THEN Succeeds(Get(env, nameN)) ELSE DRule(d)

\* C4: for every alternate D, the empty one included, ${N+D} yields the empty
\* string with no error when N is absent, and D rendered when N is present
C4_Alternate ==
    \A d \in DefaultForms :
        IsExp(opPlus, d) => IF absent(nameN) THEN Succeeds(<<>>) ELSE DRule(d)

\* C5: for every non-empty alternate D, ${N:+D} renders D when N is present
\* and non-empty, and otherwise yields the empty string with no error
C5_ColonAlternate ==
    \A d \in NonEmptyForms :
        IsExp(opColonPlus, d) =>
            IF presentNonEmpty(nameN) THEN DRule(d) ELSE Succeeds(<<>>)

\* the default branch of op is taken
DefaultTaken(op) ==
    IF op \in {opDash, opEquals} THEN absent(nameN) ELSE ~presentNonEmpty(nameN)

\* the alternate branch of op is taken
AlternateTaken(op) ==
    IF op = opPlus THEN ~absent(nameN) ELSE presentNonEmpty(nameN)

\* C6: when the default branch of -, =, :- or := is taken, a reference inside
\* the default fails with Unset when its name is absent under failOnUnset and
\* with Empty when its name is empty under failOnEmpty, whether it is the whole
\* default or is mixed with literal text
C6_DefaultFailuresPropagate ==
    \A op \in DefaultOps, d \in RefForms :
        (IsExp(op, d) /\ DefaultTaken(op)) =>
            /\ (absent(nameM) /\ R.NoUnset) => FailsWith(UnsetMsg(nameM))
            /\ (presentEmpty(nameM) /\ R.NoEmpty) => FailsWith(EmptyMsg(nameM))

\* C7: a branch that is not taken raises no Unset/Empty failure because of
\* anything inside D, a reference or a nested expansion
C7_NotTakenNotExamined ==
    \A d \in RefForms :
        /\ \A op \in AlternateOps :
              (IsExp(op, d) /\ ~AlternateTaken(op)) => NoFailureAbout(nameM)
        /\ \A op \in DefaultOps :
              (IsExp(op, d) /\ ~DefaultTaken(op)) => NoFailureAbout(nameM)

\* C8: with N absent, ${N:-pre${M}post} renders pre, the rendering of ${M} and
\* post, and ${N:=$M} and ${N:=${M}} render M
C8_NestedSpliced ==
    /\ \A d \in {f \in RefForms : f.ref = "braced"} :
          (IsExp(opColonDash, d) /\ absent(nameN)) => DRule(d)
    /\ \A d \in {f \in RefForms : f.pre = <<>> /\ f.post = <<>>} :
          (IsExp(opColonEquals, d) /\ absent(nameN)) => DRule(d)

NoDollar(s) == \A i \in 1..Len(s) : s[i] # "$"

\* C9: an input text that contains no $ is returned unchanged with no error,
\* under every restriction policy, name filter and error mode
C9_PlainTextUnchanged == (returned /\ NoDollar(text)) => Succeeds(text)

C9_Witness ==
    /\ returned /\ text = <<"{", "\n">> /\ Succeeds(text)
    /\ R.NoUnset /\ R.NoEmpty /\ R.VarMatcher = "onlyN" /\ parser.Mode = AllErrors

\* a Parser built by New with the restrictions and the Mode of the one in use
FreshParser == [New(R) EXCEPT !.Mode = parser.Mode]

\* Parse("$$" + T) against ref, the result of Parse(T)
EscapeLaw(ref) ==
    /\ err = NoErr <=> ref.err = NoErr
    /\ err = NoErr => out = <<"$">> \o ref.out

\* C10: Parse("$$" + T) succeeds exactly when Parse(T) succeeds, and then it
\* is the literal $ followed by Parse(T)
C10_EscapeLaw ==
    (returned /\ HasPrefix(text, <<"$", "$">>)) =>
        EscapeLaw(Parse(FreshParser, env, TrimPrefix(text, <<"$", "$">>)))

C10_Witness ==
    /\ returned /\ text = <<"$", "$">> \o Ref(nameN)
    /\ Get(env, nameN) = <<"a">> /\ Accepts(nameN)
    /\ Succeeds(<<"$", "a">>)

\* the items of a complete scan of the input text under the Parser's restrictions
ScanItems == lexItems(text, R.NoDigit, R.VarMatcher)

\* the scan of the input text ends with the Error token "closing brace expected"
ScanError ==
    /\ ScanItems # <<>>
    /\ ScanItems[Len(ScanItems)].typ = itemError
    /\ ScanItems[Len(ScanItems)].val = <<"closing brace expected">>

RECURSIVE EndsInsideFrom(_)

\* the step from l to l1 meets end of input or reads a line terminator at depth > 0
EndsInsideStep(l, l1) ==
    \/ /\ l.subsDepth > 0
       /\ \/ nextRune(l) = eof
          \/ \E i \in (l.pos + 1)..l1.pos : isEndOfLine(l.input[i])
    \/ EndsInsideFrom(l1)

EndsInsideFrom(l) == IF l.state = "nil" THEN FALSE ELSE EndsInsideStep(l, lexStep(l))

\* end of input or a line terminator occurs in the input text at depth > 0
EndsInside == EndsInsideFrom(lex(text, R.NoDigit, R.VarMatcher))

\* C11: when end of input or a line terminator occurs while the scanner's depth
\* is greater than 0, the scan ends with the Error token "closing brace
\* expected" and Parse returns an error
C11_ClosingBraceExpected == (returned /\ EndsInside) => (ScanError /\ err # NoErr)

\* the Parser has received every item of the scan, the Error token included
ScanErrorReceived == ScanError /\ parser.lex = <<>>

\* C12: when the scanner yields an Error token, in Quick and in AllErrors mode
\* alike, the error Parse returns is the scanner's message alone: the nodes
\* built before it add no message
C12_ScanErrorAlone ==
    (returned /\ ScanErrorReceived) => FailsWith(<<"closing brace expected">>)

\* the plain-variable rule as a result: the text of a reference to n written
\* verbatim in the input, and its failure message (<<>> when it does not fail)
PlainResult(n, verbatim) ==
    IF absent(n) /\ R.KeepUnset THEN [s |-> verbatim, msg |-> <<>>]
    ELSE IF absent(n) /\ R.NoUnset THEN [s |-> <<>>, msg |-> UnsetMsg(n)]
    ELSE IF presentEmpty(n) /\ R.NoEmpty THEN [s |-> <<>>, msg |-> EmptyMsg(n)]
    ELSE [s |-> Get(env, n), msg |-> <<>>]

\* the result of one node of NodeTexts by the rules of plain references, of
\* ${N-D} and of ${N:+D}
NodeResult(t) ==
    CASE t = Ref(nameN) \/ t = Braced(nameN) -> PlainResult(nameN, t)
      [] t = Ref(nameM) \/ t = Braced(nameM) -> PlainResult(nameM, t)
      [] t = Exp(nameN, opDash, Braced(nameM)) ->
           IF absent(nameN) THEN PlainResult(nameM, Braced(nameM))
           ELSE PlainResult(nameN, Braced(nameN))
      [] t = Exp(nameN, opColonPlus, <<"x">>) ->
           [s |-> IF presentNonEmpty(nameN) THEN <<"x">> ELSE <<>>, msg |-> <<>>]

JoinMsgs(m1, m2) == IF m1 # <<>> /\ m2 # <<>> THEN m1 \o <<"\n">> \o m2 ELSE m1 \o m2

\* Parse reports the failures of the two nodes in order, or their joined text
AllErrorsRule(ra, sep, rb) ==
    IF JoinMsgs(ra.msg, rb.msg) = <<>> THEN Succeeds(ra.s \o sep \o rb.s)
    ELSE FailsWith(JoinMsgs(ra.msg, rb.msg))

\* C13: in AllErrors mode the error returned is the failure messages of all
\* failing nodes joined by a newline in node order, and with no failing node
\* Parse returns the concatenated output and no error
C13_AllErrorsAggregates ==
    \A a \in NodeTexts, b \in NodeTexts, sep \in {<<>>, <<" ">>} :
        (returned /\ AcceptsAll /\ parser.Mode = AllErrors /\ text = a \o sep \o b)
            => AllErrorsRule(NodeResult(a), sep, NodeResult(b))

\* the nodes of NodeTexts that hold no nested expansion
PlainNodeTexts == {t \in NodeTexts : t # Exp(nameN, opDash, Braced(nameM))}

\* m is one message, not several joined by newlines
SingleMessage(m) == m # <<>> /\ \A i \in 1..Len(m) : m[i] # "\n"

\* Parse fails with the failure of the first failing node, if one fails
QuickRule(ra, rb) ==
    /\ ra.msg # <<>> => FailsWith(ra.msg)
    /\ (ra.msg = <<>> /\ rb.msg # <<>>) => FailsWith(rb.msg)

\* C14: whenever Parse returns an error the returned text is empty; in Quick
\* mode the error is a single message, the one of the first failing node
C14_QuickFirstError ==
    /\ (returned /\ err # NoErr) => out = <<>>
    /\ (returned /\ err # NoErr /\ parser.Mode = Quick) => SingleMessage(err.msg)
    /\ (returned /\ AcceptsAll /\ parser.Mode = Quick /\ text \in TwoNodes) =>
          \A a \in PlainNodeTexts, b \in PlainNodeTexts, sep \in {<<>>, <<" ">>} :
              text = a \o sep \o b => QuickRule(NodeResult(a), NodeResult(b))

C14_Witness ==
    /\ returned /\ parser.Mode = Quick /\ AcceptsAll
    /\ text = Braced(nameN) \o <<" ">> \o Ref(nameM)
    /\ absent(nameN) /\ presentEmpty(nameM) /\ R.NoUnset /\ R.NoEmpty
    /\ FailsWith(UnsetMsg(nameN))

\* C15: a Parser built by New with preserveUnresolved on has failOnUnset and
\* failOnEmpty off, and the only error its Parse returns is the scan error
C15_KeepUnsetNeverFails ==
    R.KeepUnset =>
        /\ ~R.NoUnset /\ ~R.NoEmpty
        /\ (returned /\ err # NoErr) => FailsWith(<<"closing brace expected">>)

C15_Witness ==
    /\ returned /\ R.KeepUnset /\ parser.Mode = AllErrors /\ AcceptsAll
    /\ text = Ref(nameM) \o OpenExp(nameN, opDash, <<"x">>)
    /\ absent(nameM) /\ absent(nameN)
    /\ FailsWith(<<"closing brace expected">>)

\* the name a plain reference of PlainRefs refers to
NameOf(t) == IF t \in {Ref(nameN), Braced(nameN)} THEN nameN ELSE nameM

\* a plain reference under preserveUnresolved: verbatim when its name is
\* absent, its value otherwise
Kept(t) == IF absent(NameOf(t)) THEN t ELSE Get(env, NameOf(t))

\* two plain references, side by side or with a blank between them
PlainPairs == {a \o sep \o b : a \in PlainRefs, b \in PlainRefs, sep \in {<<>>, <<" ">>}}

\* C16: with preserveUnresolved on, in an input of literal text and
\* operator-free references every reference to an absent name is reproduced
\* in its original form and every reference to a present name is replaced by
\* its value; an input whose names are all absent is returned unchanged
C16_PreserveUnsetRoundTrip ==
    (returned /\ R.KeepUnset /\ text \in Wrapped \cup PlainPairs) =>
        /\ \A a \in PlainRefs, b \in PlainRefs, sep \in {<<>>, <<" ">>} :
              (AcceptsAll /\ text = a \o sep \o b) => Succeeds(Kept(a) \o sep \o Kept(b))
        /\ \A r \in PlainRefs, pre \in {<<>>, <<"a", " ">>}, post \in {<<>>, <<" ", "x">>} :
              (AcceptsAll /\ text = pre \o r \o post) => Succeeds(pre \o Kept(r) \o post)
        /\ (absent(nameN) /\ absent(nameM)) => Succeeds(text)

C16_Witness ==
    /\ returned /\ R.KeepUnset /\ AcceptsAll
    /\ text = Braced(nameN) \o <<" ">> \o Ref(nameM)
    /\ absent(nameN) /\ Get(env, nameM) = <<"b">>
    /\ Succeeds(Braced(nameN) \o <<" ", "b">>)

\* C17: with preserveUnresolved on and N absent, ${N-D}, ${N=D}, ${N:-D} and
\* ${N:=D} with a non-empty D render D, ${N+D} and ${N:+D} render the empty
\* string, and ${N} is rendered verbatim
C17_DefaultsBeforeVerbatim ==
    (returned /\ R.KeepUnset /\ absent(nameN)) =>
        /\ \A op \in DefaultOps, d \in NonEmptyForms : IsExp(op, d) => DRule(d)
        /\ \A op \in AlternateOps, d \in NonEmptyForms : IsExp(op, d) => Succeeds(<<>>)
        /\ (AcceptsAll /\ text = Braced(nameN)) => Succeeds(Braced(nameN))

CaseOps == {opCaretCaret, opCommaComma}

\* the value v upper-cased by ^^ and lower-cased by ,,
CaseOf(op, v) == IF op = opCaretCaret THEN ToUpper(v) ELSE ToLower(v)

\* C18: ${N^^} and ${N,,} render the upper-cased and the lower-cased value of
\* N after the plain-variable checks on N, render the expansion verbatim with
\* its operator when preserveUnresolved is on and N is absent, and ignore
\* whatever stands in the default slot
C18_CaseTransforms ==
    \A op \in CaseOps, d \in DefaultForms :
        IsExp(op, d) =>
            IF absent(nameN) /\ R.KeepUnset THEN Succeeds(Exp(nameN, op, <<>>))
            ELSE IF absent(nameN) /\ R.NoUnset THEN FailsWith(UnsetMsg(nameN))
            ELSE IF presentEmpty(nameN) /\ R.NoEmpty THEN FailsWith(EmptyMsg(nameN))
            ELSE Succeeds(CaseOf(op, Get(env, nameN)))

\* the name filter is present and rejects the name n
Rejects(n) == R.VarMatcher # "nil" /\ ~Matches(R.VarMatcher, n)

\* no Variable token among items carries a name the filter rejects
NoRejectedIn(items) ==
    \A i \in 1..Len(items) :
        items[i].typ = itemVariable => ~Rejects(TrimPrefix(items[i].val, <<"$">>))

NoRejectedVariable == R.VarMatcher # "nil" => NoRejectedIn(ScanItems)

\* Parse gives the result of the one node t followed by the literal text rest
ThenLiteral(res, rest) ==
    IF res.msg # <<>> THEN FailsWith(res.msg) ELSE Succeeds(res.s \o rest)

\* a reference to M with literal text before it, after it, or both
WrappedM ==
    {pre \o r \o post : pre \in {<<>>, <<"a", " ">>}, post \in {<<>>, <<" ", "x">>},
                        r \in {Ref(nameM), Braced(nameM)}}

\* C19: the scanner emits no Variable token for a name the filter rejects, at
\* top level or inside an expansion; a rejected $M is output as the literal
\* text $M, is never replaced by a store value and never raises Unset or Empty
C19_FilterExclusion ==
    returned =>
        /\ NoRejectedVariable
        /\ Rejects(nameM) =>
              /\ NoFailureAbout(nameM)
              /\ text \in WrappedM => Succeeds(text)
              /\ \A a \in {Ref(nameN), Braced(nameN)}, sep \in {<<>>, <<" ">>} :
                    (~Rejects(nameN) /\ text = a \o sep \o Ref(nameM))
                        => ThenLiteral(NodeResult(a), sep \o Ref(nameM))
              /\ \A op \in DefaultOps, pre \in {<<>>, <<"x">>} :
                    (text = Exp(nameN, op, pre \o Ref(nameM)) /\ absent(nameN))
                        => Succeeds(pre \o Ref(nameM))

C19_Witness ==
    /\ returned /\ R.VarMatcher = "onlyN" /\ R.NoUnset /\ R.NoEmpty
    /\ text = Exp(nameN, opDash, <<"x">> \o Ref(nameM))
    /\ absent(nameN) /\ presentEmpty(nameM)
    /\ Succeeds(<<"x">> \o Ref(nameM))

underscore == <<"_">>

\* C20: $_ and ${_} are rendered verbatim with no error, under every
\* restriction policy and every name filter
C20_UnderscoreNeverVariable ==
    (returned /\ text \in {Ref(underscore), Braced(underscore)}) => Succeeds(text)

C20_Witness ==
    /\ returned /\ text = Braced(underscore)
    /\ R.VarMatcher = "all" /\ R.NoUnset /\ R.NoEmpty
    /\ Succeeds(Braced(underscore))

\* the name of the Variable token it
TokenName(it) == TrimPrefix(it.val, <<"$">>)

\* no Variable token among items has a digit-led name, and no ExpansionStart
\* among them stands before a digit of the input text
NoDigitLedIn(items) ==
    \A i \in 1..Len(items) :
        /\ (items[i].typ = itemVariable /\ TokenName(items[i]) # <<>>)
              => ~isDigit(Head(TokenName(items[i])))
        /\ (items[i].typ = itemLeftDelim /\ items[i].pos + Len(items[i].val) < Len(text))
              => ~isDigit(text[items[i].pos + Len(items[i].val) + 1])

\* C21: with ignoreDigitLeading set the scanner emits no Variable token with a
\* digit-led name and no ExpansionStart for ${ before a digit, at top level and
\* inside an expansion body, and $1 and ${1} come out of Parse unchanged
C21_NoDigitLedVariable ==
    (returned /\ R.NoDigit) =>
        /\ NoDigitLedIn(ScanItems)
        /\ text \in {Ref(digit1), Braced(digit1)} => Succeeds(text)

\* entry s declares name n: n is the text before the first "=" of s
Declares(s, n) == IndexEq(s, 0) # -1 /\ Slice(s, 0, IndexEq(s, 0)) = n
\* the text after the first "=" of s
ValueOf(s) == Slice(s, IndexEq(s, 0) + 1, Len(s))
\* the positions of l whose entry declares n
DeclaredAt(l, n) == {i \in 1..Len(l) : Declares(l[i], n)}
Least(S) == CHOOSE i \in S : \A j \in S : i <= j
\* entry i of l declares a name that an earlier entry declares
LaterDuplicate(l, i) ==
    /\ IndexEq(l[i], 0) # -1
    /\ \E j \in 1..(i - 1) : Declares(l[j], Slice(l[i], 0, IndexEq(l[i], 0)))
FirstDeclaredWins(n) ==
    IF DeclaredAt(list, n) # {}
    THEN Has(env, n) /\ Get(env, n) = ValueOf(list[Least(DeclaredAt(list, n))])
    ELSE ~Has(env, n) /\ Get(env, n) = <<>>
BlankedInPlace ==
    /\ Len(env.env) = Len(list)
    /\ \A i \in 1..Len(list) :
           env.env[i] = IF LaterDuplicate(list, i) THEN <<>> ELSE list[i]

\* C22: right after NewEnv(list), a name declared by some entry is present
\* with the value of the first entry that declares it, a name declared by no
\* entry is absent and reads as the empty string, and the store holds as many
\* entries as the list, each unchanged except that later duplicates are blank.
C22_FirstDeclaredWins ==
    phase = "built" => (\A n \in StoreNames : FirstDeclaredWins(n)) /\ BlankedInPlace

C22_Witness ==
    /\ phase = "built"
    /\ list = <<<<"N", "=", "a">>, <<"M", "=", "b">>, <<"N", "=", "b">>>>
    /\ Get(env, nameN) = <<"a">>
    /\ env.env[3] = <<>>

\* exactly one entry of store e declares n, and the index of e points at it
OneEntry(e, n) ==
    /\ Cardinality(DeclaredAt(e.env, n)) = 1
    /\ n \in DOMAIN e.indexes
    /\ e.indexes[n] + 1 \in DeclaredAt(e.env, n)

\* C23: every step Set(K, V), on the store as built or after earlier Set
\* calls, leaves K present with value V and with exactly one entry, the one
\* the index names, whether K was declared once, several times or not at all;
\* and every other present name keeps exactly one entry.
C23_SetGivesOneValue ==
    [][\A k \in StoreKeys, v \in StoreValues :
          StoreSet(k, v) =>
              /\ Has(env', k) /\ Get(env', k) = v
              /\ \A n \in StoreNames : Has(env', n) => OneEntry(env', n)]_vars

C23_Witness ==
    /\ phase = "set"
    /\ list = <<<<"N", "=", "a">>, <<"N", "=", "b">>>>
    /\ Get(env, nameN) = <<"B">>
    /\ Get(env, nameM) = <<>> /\ Has(env, nameM)
    /\ Len(env.env) = 3

\* the value of the last entry of the store that declares n: the value the
\* most recent Set(n, V) wrote, or the declared one if n was never set
Greatest(S) == CHOOSE i \in S : \A j \in S : j <= i
LastValue(n) == ValueOf(env.env[Greatest(DeclaredAt(env.env, n))])
\* the plain-variable rule for name n against the entries of the store
LazyRule(n) ==
    IF DeclaredAt(env.env, n) = {}
    THEN IF R.KeepUnset THEN Succeeds(text)
         ELSE IF R.NoUnset THEN FailsWith(UnsetMsg(n))
         ELSE Succeeds(<<>>)
    ELSE IF LastValue(n) = <<>> /\ R.NoEmpty THEN FailsWith(EmptyMsg(n))
    ELSE Succeeds(LastValue(n))

\* C24: a Parse of $K or ${K} that starts after Set(K, V) has returned
\* renders V (or fails by the rule for an empty V), whether the parser is new
\* or has parsed before that Set, and whether K was in the initial list or
\* not; without a Set it renders the declared value.
C24_LazyInjection ==
    phase \in {"returned", "reparsed"} =>
        \A n \in Names : text \in {Ref(n), Braced(n)} => LazyRule(n)

C24_Witness ==
    /\ phase = "reparsed"
    /\ list = <<<<"M", "=", "b">>>>
    /\ text = Braced(nameM)
    /\ Get(env, nameM) = <<"B">>
    /\ Succeeds(<<"B">>)

\* the second reference of ${N=x} $N, N absent, rendered as an absent variable
AssignRule ==
    LET r == PlainResult(nameN, Ref(nameN))
    IN IF r.msg # <<>> THEN FailsWith(r.msg) ELSE Succeeds(<<"x", " ">> \o r.s)

CountOf(sent, t) == Cardinality({i \in 1..Len(sent) : sent[i].typ = t})
IsTerminal(it) == it.typ \in {itemEOF, itemError}
Prefix(a, b) == Len(a) <= Len(b) /\ a = SubSeq(b, 1, Len(a))
\* the handoff given what a whole scan sends
HandoffOf(sent) ==
    /\ channel = <<>>
    /\ made - Len(received) = (IF producer = "sending" THEN 1 ELSE 0)
    /\ Prefix(received, sent)
    /\ (consumer = "returned" /\ IsTerminal(received[Len(received)])) => received = sent

\* C26: in every interleaving no item ever sits in the channel, the producer
\* has reached exactly one send more than the consumer has received while it
\* waits in a send and none otherwise, the items received are the items of the
\* scan in their order, and a consumer that has received the terminal item
\* has received them all.
C26_SynchronousHandoff == phase \in {"parsing", "returned"} => HandoffOf(Produced)

C26_Witness ==
    /\ text = Exp(nameN, opDash, <<"x">>)
    /\ producer = "sending"
    /\ consumer = "running"
    /\ Len(received) = 2 /\ made = 3

\* the last item of a scan is its only terminal item
OneTerminalLast(sent) ==
    /\ Len(sent) >= 1
    /\ \A i \in 1..Len(sent) : IsTerminal(sent[i]) <=> i = Len(sent)
\* a scan fails when it ends inside an open ${, and only then
EndsDepth(sent) == CountOf(sent, itemLeftDelim) - CountOf(sent, itemRightDelim)
TerminalKind(sent) ==
    /\ sent[Len(sent)].typ = itemEOF => EndsDepth(sent) = 0
    /\ sent[Len(sent)].typ = itemError =>
           EndsDepth(sent) > 0 /\ sent[Len(sent)].val = <<"closing brace expected">>
\* the producer closes the channel only with every item sent
ClosesAfterLast(sent) ==
    producer = "closed" =>
        /\ made = Len(sent)
        /\ received = sent

\* C27: the items of every scan hold exactly one terminal item and it is the
\* last one, EndOfInput when the scan ends outside every ${ and the Error
\* "closing brace expected" when it ends inside one; the producer reaches no
\* further send after it, and closes the channel only after the terminal item
\* has been taken.
C27_OneTerminalToken ==
    phase \in {"parsing", "returned"} =>
        /\ OneTerminalLast(Produced)
        /\ TerminalKind(Produced)
        /\ made <= Len(Produced)
        /\ ClosesAfterLast(Produced)

C27_Witness ==
    /\ producer = "closed"
    /\ text = Ref(nameM) \o <<"$", "{">>
    /\ received[Len(received)].typ = itemError
    /\ consumer = "returned"

\* C28: whenever Parse has returned, the consumer has received the terminal
\* item of the scan (EndOfInput or Error), so the producer is not left
\* waiting in a send.
C28_ParseDrains ==
    consumer = "returned" =>
        /\ received # <<>> /\ IsTerminal(received[Len(received)])
        /\ producer # "sending"

\* every state step of the scan from l on reads at least one character or
\* returns the nil state; l2 is the lexer after the step from l
RECURSIVE EveryStepReads(_)
ReadsThen(l, l2) == (l2.state = "nil" \/ l2.pos > l.pos) /\ EveryStepReads(l2)
EveryStepReads(l) == l.state = "nil" \/ ReadsThen(l, lexStep(l))

\* every state step of the scan from l on reads at least one character, emits
\* at least one character of pending input, or returns the nil state
RECURSIVE EveryStepAdvances(_)
AdvancesThen(l, l2) ==
    (l2.state = "nil" \/ l2.pos > l.pos \/ l2.start > l.start) /\ EveryStepAdvances(l2)
EveryStepAdvances(l) == l.state = "nil" \/ AdvancesThen(l, lexStep(l))

TheLexer == lex(text, parser.Restrict.NoDigit, parser.Restrict.VarMatcher)

\* how far the two goroutines have got: every step of either adds to it
Progress ==
    2 * made - (IF producer = "sending" THEN 1 ELSE 0)
        + (IF producer = "closed" THEN 1 ELSE 0)
        + 2 * Len(received)
        + (IF consumer \in {"receiving", "returned"} THEN 1 ELSE 0)
\* a goroutine can take a step: the consumer runs, or it waits for an item
\* and the producer runs or waits to hand it over
CanStep ==
    \/ consumer = "running"
    \/ consumer = "receiving" /\ producer \in {"scanning", "sending"}

\* C29 as amended: every Parse returns, that is, every step of producer or
\* consumer adds to a bounded measure of progress and leaves a state in which
\* Parse has returned or a goroutine can step; every state step of the scan
\* reads a character, emits pending input or ends the scan; and the consumer
\* never receives from the closed channel (it meets EndOfInput only in the
\* loop of parse, never inside an open substitution).
C29_ParseTerminates ==
    [][/\ Progress' > Progress
       /\ Progress' <= 4 * Len(Produced) + 2
       /\ consumer' = "returned" \/ CanStep'
       /\ consumer' # "hung"
       /\ EveryStepAdvances(TheLexer)]_vars

C29_Witness ==
    /\ consumer = "returned"
    /\ producer = "closed"
    /\ text = Exp(nameN, opDash, <<"x">>)
    /\ ~EveryStepReads(TheLexer)

\* C29 as stated: the same, with every state step of the scan reading at
\* least one character or ending the scan.
C29_EveryStepReads ==
    [][/\ Progress' > Progress
       /\ Progress' <= 4 * Len(Produced) + 2
       /\ consumer' = "returned" \/ CanStep'
       /\ consumer' # "hung"
       /\ EveryStepReads(TheLexer)]_vars

\* the number of ExpansionStart items less the number of ExpansionEnd items
\* among the first k items of sent
OpenAfter(sent, k) == EndsDepth(SubSeq(sent, 1, k))
\* the depth of lexer l agrees with the items it has emitted
DepthAgrees(l) == l.subsDepth = EndsDepth(l.items) /\ l.subsDepth >= 0
\* after every emission as many ExpansionStart as ExpansionEnd items or more
\* have been emitted, and EndOfInput is emitted with as many of each
BalancedItems(sent) ==
    \A k \in 1..Len(sent) :
        /\ OpenAfter(sent, k) >= 0
        /\ sent[k].typ = itemEOF => OpenAfter(sent, k) = 0
\* the depth agrees with the items emitted after every state step from l on,
\* and the items of the whole scan are balanced
RECURSIVE DepthAgreesFrom(_)
DepthAgreesThen(l2) == DepthAgrees(l2) /\ DepthAgreesFrom(l2)
DepthAgreesFrom(l) ==
    IF l.state = "nil" THEN BalancedItems(l.items) ELSE DepthAgreesThen(lexStep(l))

\* C30: after every state step of a scan the scanner's depth is the number of
\* ExpansionStart items emitted less the number of ExpansionEnd items emitted
\* and is not negative; no ExpansionEnd is emitted when as many ends as starts
\* have been emitted; and EndOfInput is emitted only at depth 0. A scan
\* reads the text, ignoreDigitLeading and the name filter only, so it is
\* examined once for each of these, with the empty store and in Quick mode.
C30_DepthInvariant ==
    (returned /\ env.env = <<>> /\ parser.Mode = Quick
        /\ ~R.NoUnset /\ ~R.NoEmpty /\ ~R.KeepUnset) => DepthAgreesFrom(TheLexer)

C30_Witness ==
    /\ returned /\ env.env = <<>> /\ parser.Mode = Quick
    /\ ~R.NoUnset /\ ~R.NoEmpty /\ ~R.KeepUnset
    /\ text = Exp(nameN, opDash, Braced(nameM))
    /\ CountOf(ScanItems, itemLeftDelim) = 2
    /\ CountOf(ScanItems, itemRightDelim) = 2
    /\ ScanItems[Len(ScanItems)].typ = itemEOF

\* in s from position i on, at depth d, every "${" is followed on the same
\* line by a "}" that matches it
RECURSIVE WellBracedFrom(_, _, _)
WellBracedFrom(s, i, d) ==
    IF i >= Len(s) THEN d = 0
    ELSE IF s[i + 1] = "$" /\ i + 1 < Len(s) /\ s[i + 2] = "{"
    THEN WellBracedFrom(s, i + 2, d + 1)
    ELSE IF d > 0 /\ s[i + 1] = "}" THEN WellBracedFrom(s, i + 1, d - 1)
    ELSE IF d > 0 /\ isEndOfLine(s[i + 1]) THEN FALSE
    ELSE WellBracedFrom(s, i + 1, d)
WellBraced(s) == WellBracedFrom(s, 0, 0)

\* the items sent close every expansion they open and end without an error
ClosesAll(sent) ==
    /\ sent[Len(sent)].typ # itemError
    /\ CountOf(sent, itemRightDelim) = CountOf(sent, itemLeftDelim)

\* C31: inside an expansion every "}" of the input closes one level with an
\* ExpansionEnd token, so the scan of an input in which every "${" is
\* followed on the same line by a matching "}" closes every expansion it
\* opens and yields no scan error.
C31_EveryBraceCloses == (returned /\ WellBraced(text)) => ClosesAll(ScanItems)

\* item types of the operators
isOperator(typ) == typ \in itemPlus..itemCommaComma

\* every operator item directly follows the name that directly follows a "${"
OperatorsFollowName(sent) ==
    \A i \in 1..Len(sent) :
        isOperator(sent[i].typ) =>
            i > 2 /\ sent[i - 1].typ = itemVariable /\ sent[i - 2].typ = itemLeftDelim

\* C32: within one expansion the scanner recognizes an operator only directly
\* after the leading name; every later "-", "=", "+" or ":" of the body, one
\* following a $name reference in the default included, is delivered as Text.
C32_OneOperator == returned => OperatorsFollowName(ScanItems)

\* the position after the last character of item it
SpanEnd(it) == it.pos + Len(it.val)
\* the text of item it is the slice of input that starts at its position
IsSlice(input, it) ==
    SpanEnd(it) <= Len(input) /\ it.val = Slice(input, it.pos, SpanEnd(it))
\* successive items before the terminal one cover disjoint spans, each
\* starting after the one before
SpansIncrease(sent) ==
    \A i \in 1..(Len(sent) - 1) :
        (~IsTerminal(sent[i]) /\ ~IsTerminal(sent[i + 1])) =>
            sent[i].pos < sent[i + 1].pos /\ SpanEnd(sent[i]) <= sent[i + 1].pos
\* the pending window of lexer l starts where its last emitted item ends, or
\* later, and does not pass the scan position
WindowShrunk(l) ==
    /\ l.start <= l.pos
    /\ (l.items # <<>> /\ l.items[Len(l.items)].typ # itemError) =>
            SpanEnd(l.items[Len(l.items)]) <= l.start
\* the window is shrunk after every state step from l on, and the items of
\* the whole scan, the Error item aside, are increasing slices of the input
RECURSIVE EmitsOnceFrom(_)
EmitsOnceThen(l2) == WindowShrunk(l2) /\ EmitsOnceFrom(l2)
EmitsOnceFrom(l) ==
    IF l.state = "nil"
    THEN /\ SpansIncrease(l.items)
         /\ \A i \in 1..Len(l.items) :
                l.items[i].typ # itemError => IsSlice(l.input, l.items[i])
    ELSE EmitsOnceThen(lexStep(l))

\* C33 (as the code has it): the scanner never emits the same bytes twice.
\* After every state step the pending window starts at or after the end of
\* the last item emitted; the spans of successive items before the terminal
\* one are disjoint and strictly increasing in position; and the text of
\* every item other than the Error item is the input slice from its start
\* position to the scan position at its emission. The text of the Error item
\* is its message. A scan reads the text, ignoreDigitLeading and the name
\* filter only, so it is examined once for each of these.
C33_EmitsOnce ==
    (returned /\ env.env = <<>> /\ parser.Mode = Quick
        /\ ~R.NoUnset /\ ~R.NoEmpty /\ ~R.KeepUnset) => EmitsOnceFrom(TheLexer)

C33_Witness ==
    /\ returned /\ env.env = <<>> /\ parser.Mode = Quick
    /\ ~R.NoUnset /\ ~R.NoEmpty /\ ~R.KeepUnset
    /\ text = Braced(nameN) \o <<" ">> \o Exp(nameN, opDash, Braced(nameM))
    /\ Len(ScanItems) = 12
    /\ ScanItems[3].pos = 3 /\ ScanItems[3].val = <<"}">>
    /\ ScanItems[4].pos = 4 /\ ScanItems[4].val = <<" ">>
    /\ ScanItems[5].pos = 5 /\ ScanItems[5].val = <<"$", "{">>
    /\ ScanItems[9].pos = 11 /\ ScanItems[9].val = nameM

\* C33 (as stated): the text of every token, the Error token included, is
\* the input slice from its start position to the scan position at emission
C33_EveryTokenIsSlice ==
    returned => \A i \in 1..Len(ScanItems) : IsSlice(text, ScanItems[i])

\* the chunks of message msg before its first line break
RECURSIVE FirstLine(_)
FirstLine(msg) ==
    IF msg = <<>> \/ Head(msg) = "\n" THEN <<>> ELSE <<Head(msg)>> \o FirstLine(Tail(msg))

\* the result q of Parse in Quick mode and the result a in AllErrors mode agree
ModesAgree(q, a) ==
    /\ (q.err = NoErr) <=> (a.err = NoErr)
    /\ (q.err = NoErr /\ a.err = NoErr) => q.out = a.out
    /\ (q.err # NoErr /\ a.err # NoErr) => q.err.msg = FirstLine(a.err.msg)

\* what Parse of the same text returns in AllErrors mode
InAllErrors == Parse([parser EXCEPT !.Mode = AllErrors], env, text)

\* C34: for every input, store and policy, Parse fails in Quick mode exactly
\* when it fails in AllErrors mode; when both succeed the outputs are
\* identical; when both fail the Quick message is the first line of the
\* AllErrors message.
C34_ModesAgree ==
    (returned /\ parser.Mode = Quick) => ModesAgree([out |-> out, err |-> err], InAllErrors)

C34_Witness ==
    /\ returned /\ parser.Mode = Quick /\ R.NoUnset /\ env.env = <<>>
    /\ text = Ref(nameM) \o <<" ">> \o Braced(nameM)
    /\ err # NoErr
    /\ InAllErrors.err.msg = err.msg \o <<"\n">> \o err.msg

\* the result in the state is the one res
SameResult(res) == out = res.out /\ err = res.err

\* C35: the result of Parse on a Parser that has parsed before, whatever the
\* texts, stores and modes of its earlier calls and whether they failed or
\* not, is the result a Parser newly built with the same policy and mode gives
\* for the same text and store.
C35_NoSharedState ==
    phase \in {"returned", "reparsed"} => SameResult(Parse(FreshParser, env, text))

C35_Witness ==
    /\ phase = "reparsed"
    /\ parser.Mode = AllErrors /\ R.NoUnset /\ env.env = <<>>
    /\ text = Ref(nameM) \o <<"$", "{">>
    /\ parser.peekCount = 0
    /\ Len(parser.nodes) = 2
    /\ FailsWith(<<"closing brace expected">> \o <<"\n">> \o UnsetMsg(nameM))

\* from store e to store e1 only name k has changed: every other name is
\* looked up as before, the entries there were are where they were, the entry
\* of k aside, and there is one entry more exactly when k was not present
OnlyChanges(e, e1, k) ==
    /\ \A n \in StoreNames \ {k} : Has(e1, n) = Has(e, n) /\ Get(e1, n) = Get(e, n)
    /\ \A n \in DOMAIN e.indexes : n \in DOMAIN e1.indexes /\ e1.indexes[n] = e.indexes[n]
    /\ Len(e1.env) >= Len(e.env)
    /\ \A i \in 1..Len(e.env) :
           (Has(e, k) /\ i = e.indexes[k] + 1) \/ e1.env[i] = e.env[i]
    /\ Len(e1.env) = Len(e.env) + (IF Has(e, k) THEN 0 ELSE 1)

\* C36: every step Set(K, V) changes only K: Get and Has of every other name
\* are after the call what they were before it, no existing entry moves or
\* changes but the entry of K, and the number of entries grows by one exactly
\* when K was not present before.
C36_SetChangesOnlyK ==
    [][\A k \in StoreKeys, v \in StoreValues : StoreSet(k, v) => OnlyChanges(env, env', k)]_vars

C36_Witness ==
    /\ phase = "set"
    /\ list = <<<<"M", "=", "b">>, <<"N">>>>
    /\ Len(env.env) = 3
    /\ env.indexes[nameM] = 0 /\ Get(env, nameM) = <<"b">>
    /\ Has(env, nameN) /\ env.indexes[nameN] = 2 /\ Get(env, nameN) = <<"B">>

\* the result of the body d of an expansion that is not evaluated
BodyResult(d) ==
    IF d \in {Ref(nameN), Braced(nameN)} THEN PlainResult(nameN, d)
    ELSE [s |-> d, msg |-> <<>>]

\* C37: when the filter rejects the leading name M of an expansion ${M op D}
\* and accepts N, the expansion is not evaluated: "${", M, the operator and
\* "}" are output verbatim, no Unset/Empty failure is raised about M whatever
\* the store holds for it, and a reference to N in D is rendered by the
\* plain-variable rule.
C37_RejectedLeadVerbatim ==
    (returned /\ text \in LeadM /\ Rejects(nameM) /\ ~Rejects(nameN)) =>
        /\ NoFailureAbout(nameM)
        /\ \A op \in LeadOps, d \in LeadBodies :
              text = Exp(nameM, op, d) =>
                  ThenLiteral([s |-> <<"$", "{">> \o nameM \o op \o BodyResult(d).s,
                               msg |-> BodyResult(d).msg], <<"}">>)

C37_Witness ==
    /\ returned /\ R.VarMatcher = "onlyN" /\ R.NoUnset /\ R.NoEmpty
    /\ text = Exp(nameM, opColonEquals, Ref(nameN))
    /\ absent(nameM) /\ Has(env, nameN) /\ Get(env, nameN) = <<"a">>
    /\ Succeeds(<<"$", "{">> \o nameM \o opColonEquals \o <<"a", "}">>)

\* the result of a reference to name n written verbatim: the text itself when
\* the filter rejects n, and the plain-variable rule otherwise
RunResult(n, verbatim) ==
    IF Rejects(n) THEN [s |-> verbatim, msg |-> <<>>] ELSE PlainResult(n, verbatim)

\* Parse gives the results of two nodes side by side: their texts joined, or
\* the failure of the first that fails, alone or as the first line
AdjacentRule(ra, rb) ==
    IF ra.msg = <<>> /\ rb.msg = <<>> THEN Succeeds(ra.s \o rb.s)
    ELSE /\ err # NoErr
         /\ FirstLine(err.msg) = (IF ra.msg # <<>> THEN ra.msg ELSE rb.msg)

\* C38: the name of a brace-less reference is the whole run of letters,
\* digits and underscores after "$". The filter and the store are asked
\* about that run and about nothing shorter ($NM is looked up as NM, never
\* as N), the reference ends at the first other character, which is output
\* as it is, and of two references side by side each is rendered by itself.
C38_MaximalName ==
    (returned /\ text \in LongRefs \cup EndedRefs \cup AdjacentRefs) =>
        /\ \A n \in Runs : text = Ref(n) => ThenLiteral(RunResult(n, text), <<>>)
        /\ \A rest \in {<<"-", "a">>, <<"}">>} :
              text = Ref(nameN) \o rest => ThenLiteral(RunResult(nameN, Ref(nameN)), rest)
        /\ text = Braced(nameN) \o <<"a">>
              => ThenLiteral(RunResult(nameN, Braced(nameN)), <<"a">>)
        /\ text = Ref(nameNM) \o Ref(nameN)
              => AdjacentRule(RunResult(nameNM, Ref(nameNM)), RunResult(nameN, Ref(nameN)))
        /\ text = Ref(nameN) \o Ref(nameM)
              => AdjacentRule(RunResult(nameN, Ref(nameN)), RunResult(nameM, Ref(nameM)))

C38_Witness ==
    /\ returned /\ R.VarMatcher = "all" /\ R.NoUnset /\ R.NoEmpty
    /\ text = Ref(nameNM) \o Ref(nameN)
    /\ Get(env, nameN) = <<"a">> /\ Get(env, nameNM) = <<"y">> /\ absent(nameM)
    /\ Succeeds(<<"y", "a">>)
====
